---- MODULE Spec2Model ----
(***************************************************************************)
(* oinit-ca: the configuration registry (package config) and the           *)
(* certificate handler (package api).                                      *)
(*                                                                         *)
(* Go strings whose characters the code inspects (host names, host         *)
(* patterns, cert-validity values) are sequences of one-character strings; *)
(* strings the code only compares or tests for emptiness (key file paths,  *)
(* section names, URLs) are TLA+ strings.                                  *)
(***************************************************************************)
EXTENDS Integers, Sequences, FiniteSets, TLC

VARIABLES
    host,       \* matchesHost: first argument
    host2,      \* matchesHost: second argument (the pattern)
    matchRet,   \* matchesHost: [done, val]
    conf,       \* config.Config: [HostGroups |-> sequence of HostGroup]
    qhost,      \* the host a lookup or a request names
    infoRet,    \* Config.GetInfo: [done, err, info]
    cfg,        \* the ini file LoadConfig reads: its sections, in file order
    files,      \* the key files on disk: path -> [pub, priv], which parse
    loadRet,    \* LoadConfig: [done, conf, err, pubParsed, privParsed]
    ctx,        \* the gin.Context c: what the handler's bindings make of the request
    pc,         \* PostHostCertificate: the statement the handler is at
    frame,      \* PostHostCertificate: its locals [ca, keys, status, cert]
    calls,      \* the calls the handler has made, in order: [fn, ok, with]
    responses   \* the responses written to the client: [code, error, certificate]

loadVars == <<cfg, files, loadRet>>
apiVars == <<ctx, pc, frame, calls, responses>>
vars == <<host, host2, matchRet, conf, qhost, infoRet, cfg, files, loadRet,
          ctx, pc, frame, calls, responses>>

-----------------------------------------------------------------------------
(* Bounds *)

\* longest enumerated host / pattern string
MaxLen == 3
\* most host groups in a configuration
MaxGroups == 2
\* most host patterns in one group
MaxPatterns == 2

-----------------------------------------------------------------------------
(* Strings *)

\* characters of the enumerated host names and patterns
Alphabet == {"a", "x", ".", "*"}

Strings(n) == UNION {[1..k -> Alphabet] : k \in 0..n}

\* strings.HasPrefix(s, prefix)
HasPrefix(s, prefix) ==
    /\ Len(s) >= Len(prefix)
    /\ SubSeq(s, 1, Len(prefix)) = prefix

\* strings.HasSuffix(s, suffix)
HasSuffix(s, suffix) ==
    /\ Len(s) >= Len(suffix)
    /\ SubSeq(s, Len(s) - Len(suffix) + 1, Len(s)) = suffix

\* strings.CutPrefix(s, prefix): [after, found]
CutPrefix(s, prefix) ==
    IF HasPrefix(s, prefix)
    THEN [after |-> SubSeq(s, Len(prefix) + 1, Len(s)), found |-> TRUE]
    ELSE [after |-> s, found |-> FALSE]

WildcardPrefix == <<"*", ".">>

-----------------------------------------------------------------------------
(* config: matchesHost, Config.GetInfo *)

ERR_HOST_NOT_FOUND == "host not found in config"

\* faulty variant: the wildcard branch forgets to exclude the bare domain
matchesHost_NoBareCheck(h, h2) ==
    IF HasPrefix(h2, WildcardPrefix)
    THEN HasSuffix(h, CutPrefix(h2, WildcardPrefix).after)
    ELSE h = h2

matchesHost(h, h2) ==
    IF HasPrefix(h2, WildcardPrefix)
    THEN LET root == CutPrefix(h2, WildcardPrefix).after
         IN  HasSuffix(h, root) /\ h # root
    ELSE h = h2

\* the zero config.Keys: no handle loaded
NilKeys ==
    [HostCAPrivateKey |-> 0, HostCAPublicKey |-> 0,
     UserCAPrivateKey |-> 0, UserCAPublicKey |-> 0]

\* the zero config.HostInfo
ZeroHostInfo ==
    [Name |-> <<>>, URL |-> "", CertDuration |-> 0, Keys |-> NilKeys]

\* The orders in which a Go range statement may visit the keys S of a map.
Orders(S) ==
    {s \in [1..Cardinality(S) -> S] : \A x \in S : \E i \in DOMAIN s : s[i] = x}

\* One visiting order per host group of c.
IterOrders(c) ==
    {it \in [1..Len(c.HostGroups) ->
                UNION {Orders(DOMAIN c.HostGroups[i].Hosts) : i \in 1..Len(c.HostGroups)}] :
        \A i \in 1..Len(c.HostGroups) : it[i] \in Orders(DOMAIN c.HostGroups[i].Hosts)}

\* The inner loop of GetInfo: the entries of one group, visited in `order`.
RECURSIVE RangeHosts(_, _, _, _)
RangeHosts(h, hostGroup, order, k) ==
    IF k > Len(order)
    THEN [found |-> FALSE, info |-> ZeroHostInfo]
    ELSE IF matchesHost(h, order[k])
         THEN [found |-> TRUE,
               info  |-> [Name         |-> order[k],
                          URL          |-> hostGroup.Hosts[order[k]],
                          CertDuration |-> hostGroup.CertDuration,
                          Keys         |-> hostGroup.Keys]]
         ELSE RangeHosts(h, hostGroup, order, k + 1)

\* The outer loop of GetInfo, from group i on.
RECURSIVE RangeGroups(_, _, _, _)
RangeGroups(c, h, iter, i) ==
    IF i > Len(c.HostGroups)
    THEN [err |-> ERR_HOST_NOT_FOUND, info |-> ZeroHostInfo]
    ELSE LET r == RangeHosts(h, c.HostGroups[i], iter[i], 1)
         IN  IF r.found
             THEN [err |-> "", info |-> r.info]
             ELSE RangeGroups(c, h, iter, i + 1)

\* faulty variant: the outer loop keeps going after a match, so the last group wins
RECURSIVE RangeGroups_LastWins(_, _, _, _)
RangeGroups_LastWins(c, h, iter, i) ==
    IF i > Len(c.HostGroups)
    THEN [err |-> ERR_HOST_NOT_FOUND, info |-> ZeroHostInfo]
    ELSE LET r    == RangeHosts(h, c.HostGroups[i], iter[i], 1)
             rest == RangeGroups_LastWins(c, h, iter, i + 1)
         IN  IF rest.err = "" THEN rest
             ELSE IF r.found THEN [err |-> "", info |-> r.info]
             ELSE rest

GetInfo_LastWins(c, h, iter) == RangeGroups_LastWins(c, h, iter, 1)

\* func (c Config) GetInfo(host string) (HostInfo, error); iter is the order in
\* which each group's Hosts map happens to be visited.
GetInfo(c, h, iter) == RangeGroups(c, h, iter, 1)

-----------------------------------------------------------------------------
(* time.ParseDuration, as parseCertValidities uses it *)

\* A time.Duration is an int64 count of nanoseconds; it is held here as
\* [neg, sec, nsec] with 0 <= nsec < NanosPerSecond, so that every
\* intermediate value stays within TLC's integers.  Within the bounds of the
\* model no value comes near 1<<63, the overflow errors of ParseDuration are
\* out of reach.
NanosPerSecond == 1000000000

DigitValue ==
    [ch \in {"0", "1", "2", "3", "4", "5", "6", "7", "8", "9"} |->
        CASE ch = "0" -> 0 [] ch = "1" -> 1 [] ch = "2" -> 2 [] ch = "3" -> 3
          [] ch = "4" -> 4 [] ch = "5" -> 5 [] ch = "6" -> 6 [] ch = "7" -> 7
          [] ch = "8" -> 8 [] ch = "9" -> 9]

IsDigit(ch) == ch \in DOMAIN DigitValue

Tail2(s, k) == SubSeq(s, k, Len(s))

\* leadingInt: the leading [0-9]* of s as [x, rem]
RECURSIVE leadingIntFrom(_, _)
leadingIntFrom(x, s) ==
    IF s # <<>> /\ IsDigit(s[1])
    THEN leadingIntFrom(x * 10 + DigitValue[s[1]], Tail(s))
    ELSE [x |-> x, rem |-> s]

leadingInt(s) == leadingIntFrom(0, s)

\* leadingFraction: the leading [0-9]* of s as [x, scale, rem], x / scale
\* being the fraction
RECURSIVE leadingFractionFrom(_, _, _)
leadingFractionFrom(x, scale, s) ==
    IF s # <<>> /\ IsDigit(s[1])
    THEN leadingFractionFrom(x * 10 + DigitValue[s[1]], scale * 10, Tail(s))
    ELSE [x |-> x, scale |-> scale, rem |-> s]

leadingFraction(s) == leadingFractionFrom(0, 1, s)

\* unitMap, each unit as [sec, nsec]
unitMap ==
    (<<"n", "s">> :> [sec |-> 0, nsec |-> 1]) @@
    (<<"u", "s">> :> [sec |-> 0, nsec |-> 1000]) @@
    (<<"m", "s">> :> [sec |-> 0, nsec |-> 1000000]) @@
    (<<"s">> :> [sec |-> 1, nsec |-> 0]) @@
    (<<"m">> :> [sec |-> 60, nsec |-> 0]) @@
    (<<"h">> :> [sec |-> 3600, nsec |-> 0])

\* the length of the unit at the head of s: up to the next '.' or digit
RECURSIVE unitLen(_)
unitLen(s) ==
    IF s = <<>> \/ s[1] = "." \/ IsDigit(s[1]) THEN 0 ELSE 1 + unitLen(Tail(s))

\* v * unit + f/scale * unit, as [sec, nsec]
TermValue(v, f, scale, unit) ==
    LET whole == [sec  |-> v * unit.sec + (v * unit.nsec) \div NanosPerSecond,
                  nsec |-> (v * unit.nsec) % NanosPerSecond]
        frac  == IF unit.sec > 0
                 THEN [sec  |-> (f * unit.sec) \div scale,
                       nsec |-> ((f * unit.sec) % scale) * (NanosPerSecond \div scale)]
                 ELSE [sec |-> 0, nsec |-> (f * unit.nsec) \div scale]
        ns    == whole.nsec + frac.nsec
    IN  [sec  |-> whole.sec + frac.sec + ns \div NanosPerSecond,
         nsec |-> ns % NanosPerSecond]

\* the loop of ParseDuration over ([0-9]*(\.[0-9]*)?[a-z]+)+, d the sum so far
RECURSIVE parseTerms(_, _)
parseTerms(d, s) ==
    IF s = <<>>
    THEN [ok |-> TRUE, sec |-> d.sec, nsec |-> d.nsec]
    ELSE IF ~(s[1] = "." \/ IsDigit(s[1]))
    THEN [ok |-> FALSE, sec |-> 0, nsec |-> 0]
    ELSE LET int   == leadingInt(s)
             pre   == Len(int.rem) # Len(s)
             dot   == int.rem # <<>> /\ int.rem[1] = "."
             fr    == IF dot THEN leadingFraction(Tail(int.rem))
                     ELSE [x |-> 0, scale |-> 1, rem |-> int.rem]
             post  == dot /\ Len(fr.rem) # Len(int.rem) - 1
             n     == unitLen(fr.rem)
             u     == SubSeq(fr.rem, 1, n)
         IN  IF ~pre /\ ~post THEN [ok |-> FALSE, sec |-> 0, nsec |-> 0]
             ELSE IF n = 0 THEN [ok |-> FALSE, sec |-> 0, nsec |-> 0]
             ELSE IF u \notin DOMAIN unitMap THEN [ok |-> FALSE, sec |-> 0, nsec |-> 0]
             ELSE LET t  == TermValue(int.x, fr.x, fr.scale, unitMap[u])
                      ns == d.nsec + t.nsec
                  IN  parseTerms([sec  |-> d.sec + t.sec + ns \div NanosPerSecond,
                                  nsec |-> ns % NanosPerSecond],
                                 Tail2(fr.rem, n + 1))

\* time.ParseDuration(s): [ok, neg, sec, nsec]
ParseDuration(s) ==
    LET signed == s # <<>> /\ s[1] \in {"-", "+"}
        neg    == s # <<>> /\ s[1] = "-"
        body   == IF signed THEN Tail(s) ELSE s
    IN  IF body = <<"0">> THEN [ok |-> TRUE, neg |-> FALSE, sec |-> 0, nsec |-> 0]
        ELSE IF body = <<>> THEN [ok |-> FALSE, neg |-> FALSE, sec |-> 0, nsec |-> 0]
        ELSE LET r == parseTerms([sec |-> 0, nsec |-> 0], body)
             IN  [ok |-> r.ok, neg |-> r.ok /\ neg, sec |-> r.sec, nsec |-> r.nsec]

\* What uint64(f) yields for a float64 below -1: the Go specification leaves
\* it to the implementation.  "wrap": the bits of int64(f) (amd64);
\* "saturate": 0 (arm64).
Float64ToUint64 == {"wrap", "saturate"}

\* uint64(dur.Seconds()).  A uint64 is held as the int64 with the same bits: a
\* negative number n stands for 2^64 + n.
SecondsAsUint64(dur, conv) ==
    IF ~dur.neg \/ dur.sec = 0 THEN dur.sec
    ELSE IF conv = "wrap" THEN 0 - dur.sec
    ELSE 0

-----------------------------------------------------------------------------
(* config: LoadConfig, loadKeys, parseCertValidities *)

\* An ini section is [Name, KeysHash]; KeysHash maps a key to its value.  A
\* key is a string of symbols: a host pattern is spelled out character by
\* character, each of the five option names is one symbol.
DefaultSection == "DEFAULT"

KeyHostCAPrivateKey == <<"host-ca-privkey">>
KeyHostCAPublicKey  == <<"host-ca-pubkey">>
KeyUserCAPrivateKey == <<"user-ca-privkey">>
KeyUserCAPublicKey  == <<"user-ca-pubkey">>
KeyCertValidity     == <<"cert-validity">>

OptionKeys ==
    {KeyHostCAPrivateKey, KeyHostCAPublicKey, KeyUserCAPrivateKey,
     KeyUserCAPublicKey, KeyCertValidity}

token == <<"t", "o", "k", "e", "n">>

\* the zero DefaultOptions
ZeroOptions ==
    [PathHostCAPrivateKey |-> "", PathHostCAPublicKey |-> "",
     PathUserCAPrivateKey |-> "", PathUserCAPublicKey |-> "",
     CertValidity |-> <<>>]

\* One string field of (*Section).MapTo: the key's value when the section has
\* the key and the value is not empty, else the field as it was.
MapField(section, key, old, empty) ==
    IF key \in DOMAIN section.KeysHash /\ section.KeysHash[key] # empty
    THEN section.KeysHash[key]
    ELSE old

\* section.MapTo(opts) on a DefaultOptions
MapTo(section, opts) ==
    [PathHostCAPrivateKey |->
        MapField(section, KeyHostCAPrivateKey, opts.PathHostCAPrivateKey, ""),
     PathHostCAPublicKey |->
        MapField(section, KeyHostCAPublicKey, opts.PathHostCAPublicKey, ""),
     PathUserCAPrivateKey |->
        MapField(section, KeyUserCAPrivateKey, opts.PathUserCAPrivateKey, ""),
     PathUserCAPublicKey |->
        MapField(section, KeyUserCAPublicKey, opts.PathUserCAPublicKey, ""),
     CertValidity |->
        MapField(section, KeyCertValidity, opts.CertValidity, <<>>)]

\* the hosts of a section: every entry whose key is none of the five options
HostsOf(section) ==
    [key \in DOMAIN section.KeysHash \ OptionKeys |-> section.KeysHash[key]]

\* faulty variant: an empty cert-validity goes unnoticed
MissingOption_SkipsValidity(hg) ==
    /\ hg.Name # DefaultSection
    /\ \/ hg.PathHostCAPrivateKey = ""
       \/ hg.PathHostCAPublicKey = ""
       \/ hg.PathUserCAPrivateKey = ""
       \/ hg.PathUserCAPublicKey = ""

\* the test of LoadConfig for a host group with an option left empty
MissingOption(hg) ==
    /\ hg.Name # DefaultSection
    /\ \/ hg.PathHostCAPrivateKey = ""
       \/ hg.PathHostCAPublicKey = ""
       \/ hg.PathUserCAPrivateKey = ""
       \/ hg.PathUserCAPublicKey = ""
       \/ hg.CertValidity = <<>>

NoError == [msg |-> "", group |-> ""]
NoConfig == [HostGroups |-> <<>>]

\* The loop of LoadConfig over cfg.Sections(), from section k on; groups are
\* the host groups appended so far.
RECURSIVE RangeSections(_, _, _, _)
RangeSections(sections, defOptions, groups, k) ==
    IF k > Len(sections)
    THEN [groups |-> groups, err |-> NoError]
    ELSE IF sections[k].Name = DefaultSection
    THEN RangeSections(sections, defOptions, groups, k + 1)
    ELSE LET opts == MapTo(sections[k], defOptions)
             hg   == [PathHostCAPrivateKey |-> opts.PathHostCAPrivateKey,
                      PathHostCAPublicKey  |-> opts.PathHostCAPublicKey,
                      PathUserCAPrivateKey |-> opts.PathUserCAPrivateKey,
                      PathUserCAPublicKey  |-> opts.PathUserCAPublicKey,
                      CertValidity         |-> opts.CertValidity,
                      Keys                 |-> NilKeys,
                      CertDuration         |-> 0,
                      Name                 |-> sections[k].Name,
                      Hosts                |-> HostsOf(sections[k])]
         IN  IF MissingOption(hg)
             THEN [groups |-> groups,
                   err |-> [msg |-> "missing option in hostgroup ", group |-> hg.Name]]
             ELSE RangeSections(sections, defOptions, Append(groups, hg), k + 1)

\* parsePublicKeyFile / parsePrivateKeyFile succeed on a file that exists and
\* parses as a key of that flavor
ParsesAs(fs, path, flavor) ==
    /\ path \in DOMAIN fs
    /\ IF flavor = "pub" THEN fs[path].pub ELSE fs[path].priv

\* faulty variant: the cache is not consulted, every path is parsed again
RECURSIVE RangePaths_NoCache(_, _, _, _, _)
RangePaths_NoCache(fs, flavor, paths, st, k) ==
    IF k > Len(paths) \/ st.failed
    THEN st
    ELSE IF ParsesAs(fs, paths[k], flavor)
         THEN RangePaths_NoCache(fs, flavor, paths,
                  [uniq   |-> [q \in DOMAIN st.uniq \cup {paths[k]} |->
                                 IF q = paths[k] THEN st.next ELSE st.uniq[q]],
                   parsed |-> Append(st.parsed, paths[k]),
                   next   |-> st.next + 1,
                   failed |-> FALSE], k + 1)
         ELSE [st EXCEPT !.parsed = Append(st.parsed, paths[k]), !.failed = TRUE]

\* One of the two inner loops of loadKeys, over the paths of one flavor.  st
\* is [uniq, parsed, next, failed]: the cache of that flavor, the paths handed
\* to the parser so far, the next fresh handle, and whether a parse failed.  A
\* handle is the identity of one parsed key object.
RECURSIVE RangePaths(_, _, _, _, _)
RangePaths(fs, flavor, paths, st, k) ==
    IF k > Len(paths) \/ st.failed
    THEN st
    ELSE IF paths[k] \in DOMAIN st.uniq
    THEN RangePaths(fs, flavor, paths, st, k + 1)
    ELSE IF ParsesAs(fs, paths[k], flavor)
         THEN RangePaths(fs, flavor, paths,
                  [uniq   |-> [q \in DOMAIN st.uniq \cup {paths[k]} |->
                                 IF q = paths[k] THEN st.next ELSE st.uniq[q]],
                   parsed |-> Append(st.parsed, paths[k]),
                   next   |-> st.next + 1,
                   failed |-> FALSE], k + 1)
         ELSE [st EXCEPT !.parsed = Append(st.parsed, paths[k]), !.failed = TRUE]

\* The outer loop of loadKeys, from group i on.  ks is [groups, pub, priv,
\* failed].
RECURSIVE RangeKeyGroups(_, _, _)
RangeKeyGroups(fs, ks, i) ==
    IF i > Len(ks.groups)
    THEN ks
    ELSE LET group == ks.groups[i]
             pub   == RangePaths(fs, "pub",
                          <<group.PathHostCAPublicKey, group.PathUserCAPublicKey>>,
                          ks.pub, 1)
             priv  == RangePaths(fs, "priv",
                          <<group.PathHostCAPrivateKey, group.PathUserCAPrivateKey>>,
                          [ks.priv EXCEPT !.next = pub.next], 1)
         IN  IF pub.failed
             THEN [ks EXCEPT !.pub = pub, !.failed = TRUE]
             ELSE IF priv.failed
             THEN [ks EXCEPT !.pub = pub, !.priv = priv, !.failed = TRUE]
             ELSE RangeKeyGroups(fs,
                      [groups |-> [ks.groups EXCEPT ![i].Keys =
                                      [HostCAPublicKey  |-> pub.uniq[group.PathHostCAPublicKey],
                                       UserCAPublicKey  |-> pub.uniq[group.PathUserCAPublicKey],
                                       HostCAPrivateKey |-> priv.uniq[group.PathHostCAPrivateKey],
                                       UserCAPrivateKey |-> priv.uniq[group.PathUserCAPrivateKey]]],
                       pub    |-> [pub EXCEPT !.next = priv.next],
                       priv   |-> priv,
                       failed |-> FALSE],
                      i + 1)

EmptyCache == [uniq |-> <<>>, parsed |-> <<>>, next |-> 1, failed |-> FALSE]

\* loadKeys(conf): [groups, pub, priv, failed]
loadKeys(fs, groups) ==
    RangeKeyGroups(fs, [groups |-> groups, pub |-> EmptyCache, priv |-> EmptyCache,
                        failed |-> FALSE], 1)

\* The loop of parseCertValidities, from group i on: [groups, failed]
RECURSIVE RangeValidities(_, _, _)
RangeValidities(groups, conv, i) ==
    IF i > Len(groups)
    THEN [groups |-> groups, failed |-> FALSE]
    ELSE LET validity == groups[i].CertValidity
         IN  IF validity = token
             THEN RangeValidities([groups EXCEPT ![i].CertDuration = 0], conv, i + 1)
             ELSE LET dur == ParseDuration(validity)
                  IN  IF ~dur.ok
                      THEN [groups |-> groups, failed |-> TRUE]
                      ELSE RangeValidities(
                               [groups EXCEPT ![i].CertDuration = SecondsAsUint64(dur, conv)],
                               conv, i + 1)

\* parseCertValidities(conf); conv is what the build makes of uint64(negative)
parseCertValidities(groups, conv) == RangeValidities(groups, conv, 1)

\* The end of LoadConfig, once the keys are loaded: parseCertValidities and
\* the return.
LoadConfigValidities(keyed, timed) ==
    [conf       |-> [HostGroups |-> timed.groups],
     err        |-> IF timed.failed
                    THEN [msg |-> "could not parse certificate validities", group |-> ""]
                    ELSE NoError,
     pubParsed  |-> keyed.pub.parsed,
     privParsed |-> keyed.priv.parsed]

\* LoadConfig from the call of loadKeys on: keyed is what loadKeys left.
LoadConfigKeys(keyed, conv) ==
    IF keyed.failed
    THEN [conf |-> [HostGroups |-> keyed.groups],
          err |-> [msg |-> "could not open and parse keys", group |-> ""],
          pubParsed |-> keyed.pub.parsed, privParsed |-> keyed.priv.parsed]
    ELSE LoadConfigValidities(keyed, parseCertValidities(keyed.groups, conv))

\* LoadConfig after the loop over the sections: read is what the loop left.
LoadConfigSections(read, fs, conv) ==
    IF read.err # NoError
    THEN [conf |-> [HostGroups |-> read.groups], err |-> read.err,
          pubParsed |-> <<>>, privParsed |-> <<>>]
    ELSE LoadConfigKeys(loadKeys(fs, read.groups), conv)

\* cfg.MapTo(&defOptions): the options of the default section
DefaultOptionsOf(sections) ==
    LET defaults == {k \in DOMAIN sections : sections[k].Name = DefaultSection}
    IN  IF defaults = {} THEN ZeroOptions
        ELSE MapTo(sections[CHOOSE k \in defaults : TRUE], ZeroOptions)

\* LoadConfig(path): [conf, err, pubParsed, privParsed]; the last two list the
\* paths handed to parsePublicKeyFile and parsePrivateKeyFile, in call order.
\* source is what ini.Load makes of the file: [loads, sections].
LoadConfig(source, fs, conv) ==
    IF ~source.loads
    THEN [conf |-> NoConfig, err |-> [msg |-> "ini.Load", group |-> ""],
          pubParsed |-> <<>>, privParsed |-> <<>>]
    ELSE LoadConfigSections(
             RangeSections(source.sections, DefaultOptionsOf(source.sections), <<>>, 1),
             fs, conv)

-----------------------------------------------------------------------------
(* Inputs of the lookup specifications *)

\* "a", "*.a", "x.a"
PatternPool == {<<"a">>, <<"*", ".", "a">>, <<"x", ".", "a">>}

\* section names
GroupNames == <<"group1", "group2", "group3", "group4">>
GroupName(i) == GroupNames[i]

\* the URL configured for pattern p in group number i
UrlOf(i, p) == <<"https://mc", i, p>>

\* a loaded host group number i with the pattern set ps
LoadedGroup(i, ps) ==
    [Name         |-> GroupName(i),
     Hosts        |-> [p \in ps |-> UrlOf(i, p)],
     CertDuration |-> 60 * i,
     Keys         |-> [HostCAPrivateKey |-> 4 * i - 3, HostCAPublicKey |-> 4 * i - 2,
                       UserCAPrivateKey |-> 4 * i - 1, UserCAPublicKey |-> 4 * i]]

\* "", "a", "x", "xa", ".a", "a.a", "x.a", "xx.a", "x.x"
QueryHosts ==
    {<<>>, <<"a">>, <<"x">>, <<"x", "a">>, <<".", "a">>, <<"a", ".", "a">>,
     <<"x", ".", "a">>, <<"x", "x", ".", "a">>, <<"x", ".", "x">>}

PatternSets == {ps \in SUBSET PatternPool : Cardinality(ps) <= MaxPatterns}

LoadedConfigs ==
    {[HostGroups |-> [i \in DOMAIN pss |-> LoadedGroup(i, pss[i])]] :
        pss \in UNION {[1..n -> PatternSets] : n \in 0..MaxGroups}}

\* host names and patterns of the documentation
example_com       == <<"e", "x", "a", "m", "p", "l", "e", ".", "c", "o", "m">>
a_example_com     == <<"a", ".">> \o example_com
b_a_example_com   == <<"b", ".">> \o a_example_com
notexample_com    == <<"n", "o", "t">> \o example_com
wild_example_com  == WildcardPrefix \o example_com

ExampleHosts == {example_com, a_example_com, b_a_example_com, notexample_com}
ExamplePatterns == {example_com, wild_example_com}

NoMatchRet == [done |-> FALSE, val |-> FALSE]
NoInfoRet == [done |-> FALSE, err |-> "", info |-> ZeroHostInfo]
NoSource == [loads |-> FALSE, sections |-> <<>>]
NoLoadRet ==
    [done |-> FALSE, conf |-> NoConfig, err |-> NoError,
     pubParsed |-> <<>>, privParsed |-> <<>>]

-----------------------------------------------------------------------------
(* api: PostHostCertificate *)

ERR_BAD_BODY       == "Request body is malformed."
ERR_UNKNOWN_HOST   == "Unknown host."
ERR_UNAUTHORIZED   == "User is not authorized or suspended."
ERR_INTERNAL_ERROR == "Internal server error."

StatusCreated             == 201
StatusBadRequest          == 400
StatusUnauthorized        == 401
StatusInternalServerError == 500

StateNotDeployed == "not_deployed"
StateDeployed    == "deployed"
StateSuspended   == "suspended"

\* what GetUserStatus may report as the state: the three states and one the
\* handler does not know
ReportedStates == {StateNotDeployed, StateDeployed, StateSuspended, "unknown"}

NoCertificate == [set |-> FALSE, Key |-> "", SignatureKey |-> 0]

NoFrame ==
    [ca |-> "", keys |-> NilKeys, status |-> [err |-> FALSE, State |-> ""],
     cert |-> NoCertificate]

NoRequest == [UriOk |-> FALSE, JsonOk |-> FALSE, PubkeyOk |-> FALSE, ConfigOk |-> FALSE]

ApiIdle ==
    /\ ctx = NoRequest
    /\ pc = "idle"
    /\ frame = NoFrame
    /\ calls = <<>>
    /\ responses = <<>>

\* Error(c, code, msg), after which the handler returns
Error(code, msg) ==
    /\ responses' = Append(responses, [code |-> code, error |-> msg,
                                       certificate |-> NoCertificate])
    /\ pc' = "done"

Call(fn, ok, with) == calls' = Append(calls, [fn |-> fn, ok |-> ok, with |-> with])

\* Config.GetMotleyCueURL(host): the URL of the lookup, or its error
GetMotleyCueURL(cf, h, iter) ==
    LET r == GetInfo(cf, h, iter) IN [url |-> r.info.URL, err |-> r.err]

\* Config.GetKeys(host): the Keys of the lookup, or its error
GetKeys(cf, h, iter) ==
    LET r == GetInfo(cf, h, iter) IN [keys |-> r.info.Keys, err |-> r.err]

\* c.ShouldBindUri(&host), c.ShouldBindJSON(&body)
Bind ==
    /\ pc = "bind"
    /\ IF ~ctx.UriOk \/ ~ctx.JsonOk
       THEN Error(StatusBadRequest, ERR_BAD_BODY)
       ELSE pc' = "parseKey" /\ UNCHANGED responses
    /\ UNCHANGED <<host, host2, matchRet, conf, qhost, infoRet, loadVars, ctx, frame, calls>>

\* ssh.ParseAuthorizedKey(body.Pubkey)
ParseAuthorizedKey ==
    /\ pc = "parseKey"
    /\ IF ~ctx.PubkeyOk
       THEN Error(StatusBadRequest, ERR_BAD_BODY)
       ELSE pc' = "config" /\ UNCHANGED responses
    /\ UNCHANGED <<host, host2, matchRet, conf, qhost, infoRet, loadVars, ctx, frame, calls>>

\* c.MustGet("config").(config.Config)
MustGetConfig ==
    /\ pc = "config"
    /\ IF ~ctx.ConfigOk
       THEN Error(StatusInternalServerError, ERR_INTERNAL_ERROR)
       ELSE pc' = "url" /\ UNCHANGED responses
    /\ UNCHANGED <<host, host2, matchRet, conf, qhost, infoRet, loadVars, ctx, frame, calls>>

\* faulty variant: the lookup's error is dropped and the handler goes on
CallGetMotleyCueURL_ErrorDropped ==
    /\ pc = "url"
    /\ \E iter \in IterOrders(conf) :
          LET r == GetMotleyCueURL(conf, qhost, iter)
          IN  /\ Call("GetMotleyCueURL", r.err = "", 0)
              /\ frame' = [frame EXCEPT !.ca = r.url]
              /\ pc' = IF r.err # "" THEN "status" ELSE "keys"
              /\ UNCHANGED responses
    /\ UNCHANGED <<host, host2, matchRet, conf, qhost, infoRet, loadVars, ctx>>

\* ca, err := conf.GetMotleyCueURL(host.Host)
CallGetMotleyCueURL ==
    /\ pc = "url"
    /\ \E iter \in IterOrders(conf) :
          LET r == GetMotleyCueURL(conf, qhost, iter)
          IN  /\ Call("GetMotleyCueURL", r.err = "", 0)
              /\ IF r.err # ""
                 THEN Error(StatusBadRequest, ERR_UNKNOWN_HOST) /\ UNCHANGED frame
                 ELSE /\ frame' = [frame EXCEPT !.ca = r.url]
                      /\ pc' = "keys"
                      /\ UNCHANGED responses
    /\ UNCHANGED <<host, host2, matchRet, conf, qhost, infoRet, loadVars, ctx>>

\* keys, err := conf.GetKeys(host.Host)
CallGetKeys ==
    /\ pc = "keys"
    /\ \E iter \in IterOrders(conf) :
          LET r == GetKeys(conf, qhost, iter)
          IN  /\ Call("GetKeys", r.err = "", 0)
              /\ IF r.err # ""
                 THEN Error(StatusBadRequest, ERR_UNKNOWN_HOST) /\ UNCHANGED frame
                 ELSE /\ frame' = [frame EXCEPT !.keys = r.keys]
                      /\ pc' = "status"
                      /\ UNCHANGED responses
    /\ UNCHANGED <<host, host2, matchRet, conf, qhost, infoRet, loadVars, ctx>>

\* status, err := libmotleycue.NewClient(ca).GetUserStatus(body.Token): the
\* request fails (transport, invalid token) or reports a state
CallGetUserStatus ==
    /\ pc = "status"
    /\ \E st \in [err : {TRUE}, State : {""}] \cup [err : {FALSE}, State : ReportedStates] :
          /\ Call("GetUserStatus", ~st.err, 0)
          /\ IF st.err
             THEN Error(StatusUnauthorized, ERR_UNAUTHORIZED) /\ UNCHANGED frame
             ELSE /\ frame' = [frame EXCEPT !.status = st]
                  /\ pc' = "switch"
                  /\ UNCHANGED responses
    /\ UNCHANGED <<host, host2, matchRet, conf, qhost, infoRet, loadVars, ctx>>

\* faulty variant: the suspended case breaks like the two cases above it
StateAllowed_SuspendedBreaks(state) ==
    state \in {StateNotDeployed, StateDeployed, StateSuspended}

\* switch status.State: the cases that break out of the switch
StateAllowed(state) ==
    CASE state = StateNotDeployed -> TRUE
      [] state = StateDeployed -> TRUE
      [] state = StateSuspended -> FALSE
      [] OTHER -> FALSE

SwitchState ==
    /\ pc = "switch"
    /\ IF StateAllowed(frame.status.State)
       THEN pc' = "sign" /\ UNCHANGED responses
       ELSE Error(StatusUnauthorized, ERR_UNAUTHORIZED)
    /\ UNCHANGED <<host, host2, matchRet, conf, qhost, infoRet, loadVars, ctx, frame, calls>>

\* cert := generateUserCertificate(pubkey, body.Token);
\* ssh.NewSignerFromKey(keys.UserCAPrivateKey); cert.SignCert(rand.Reader, signer)
SignCertificate ==
    /\ pc = "sign"
    /\ \E signerOk, signOk \in BOOLEAN :
          LET made == <<[fn |-> "generateUserCertificate", ok |-> TRUE, with |-> 0],
                        [fn |-> "NewSignerFromKey", ok |-> signerOk,
                         with |-> frame.keys.UserCAPrivateKey]>>
              sign == <<[fn |-> "SignCert", ok |-> signOk,
                         with |-> frame.keys.UserCAPrivateKey]>>
          IN  /\ calls' = calls \o made \o (IF signerOk THEN sign ELSE <<>>)
              /\ IF ~signerOk \/ ~signOk
                 THEN /\ Error(StatusUnauthorized, ERR_INTERNAL_ERROR)
                      /\ UNCHANGED frame
                 ELSE /\ frame' = [frame EXCEPT !.cert =
                                     [set |-> TRUE, Key |-> "pubkey",
                                      SignatureKey |-> frame.keys.UserCAPrivateKey]]
                      /\ pc' = "validate"
                      /\ UNCHANGED responses
    /\ UNCHANGED <<host, host2, matchRet, conf, qhost, infoRet, loadVars, ctx>>

\* faulty variant: the result of the self-check is not looked at
ValidateCertificate_Ignored ==
    /\ pc = "validate"
    /\ \E valid \in BOOLEAN :
          /\ Call("validateUserCertificate", valid, frame.keys.UserCAPublicKey)
          /\ pc' = "respond"
          /\ UNCHANGED responses
    /\ UNCHANGED <<host, host2, matchRet, conf, qhost, infoRet, loadVars, ctx, frame>>

\* validateUserCertificate(cert, keys.UserCAPublicKey)
ValidateCertificate ==
    /\ pc = "validate"
    /\ \E valid \in BOOLEAN :
          /\ Call("validateUserCertificate", valid, frame.keys.UserCAPublicKey)
          /\ IF ~valid
             THEN Error(StatusInternalServerError, ERR_INTERNAL_ERROR)
             ELSE pc' = "respond" /\ UNCHANGED responses
    /\ UNCHANGED <<host, host2, matchRet, conf, qhost, infoRet, loadVars, ctx, frame>>

\* c.JSON(http.StatusCreated, ApiResponseCertificate{...})
RespondCreated ==
    /\ pc = "respond"
    /\ responses' = Append(responses, [code |-> StatusCreated, error |-> "",
                                       certificate |-> frame.cert])
    /\ pc' = "done"
    /\ UNCHANGED <<host, host2, matchRet, conf, qhost, infoRet, loadVars, ctx, frame, calls>>

-----------------------------------------------------------------------------
(* Specification SpecMatch: matchesHost applied to every pair of strings *)

InitMatch ==
    /\ host \in Strings(MaxLen) \cup ExampleHosts
    /\ host2 \in Strings(MaxLen) \cup ExamplePatterns
    /\ matchRet = NoMatchRet
    /\ conf = NoConfig
    /\ qhost = <<>>
    /\ infoRet = NoInfoRet
    /\ cfg = NoSource
    /\ files = <<>>
    /\ loadRet = NoLoadRet
    /\ ApiIdle

CallMatchesHost ==
    /\ ~matchRet.done
    /\ matchRet' = [done |-> TRUE, val |-> matchesHost(host, host2)]
    /\ UNCHANGED <<host, host2, conf, qhost, infoRet, loadVars, apiVars>>

NextMatch == CallMatchesHost

SpecMatch == InitMatch /\ [][NextMatch]_vars

-----------------------------------------------------------------------------
(* Specification SpecResolve: Config.GetInfo on every loaded configuration *)

InitResolve ==
    /\ host = <<>>
    /\ host2 = <<>>
    /\ matchRet = NoMatchRet
    /\ conf \in LoadedConfigs
    /\ qhost \in QueryHosts
    /\ infoRet = NoInfoRet
    /\ cfg = NoSource
    /\ files = <<>>
    /\ loadRet = NoLoadRet
    /\ ApiIdle

CallGetInfo ==
    /\ ~infoRet.done
    /\ \E iter \in IterOrders(conf) :
          LET r == GetInfo(conf, qhost, iter)
          IN  infoRet' = [done |-> TRUE, err |-> r.err, info |-> r.info]
    /\ UNCHANGED <<host, host2, matchRet, conf, qhost, loadVars, apiVars>>

NextResolve == CallGetInfo

SpecResolve == InitResolve /\ [][NextResolve]_vars

-----------------------------------------------------------------------------
(* Specifications SpecLoad and SpecValidity: LoadConfig on ini files *)

\* most characters of an enumerated cert-validity value
MaxValidityLen == 2

\* the public-key options a named section may give: none, one file for both
\* keys, or two files
PubChoices ==
    {<<>>,
     KeyHostCAPublicKey :> "/k1" @@ KeyUserCAPublicKey :> "/k1",
     KeyHostCAPublicKey :> "/k1" @@ KeyUserCAPublicKey :> "/k2"}

\* the private-key options a named section may give: none, the user CA key
\* only, or two files
PrivChoices ==
    {<<>>,
     KeyUserCAPrivateKey :> "/k2",
     KeyHostCAPrivateKey :> "/k2" @@ KeyUserCAPrivateKey :> "/k1"}

ValidityChoices(vs) == {<<>>} \cup {KeyCertValidity :> v : v \in vs}

\* the host entry of every named section
SectionHosts == <<"*", ".", "a">> :> "https://mc.a"


\* the named sections of the key-loading inputs
KeySections ==
    {pub @@ priv @@ val @@ SectionHosts :
        pub  \in PubChoices,
        priv \in PrivChoices,
        val  \in ValidityChoices({<<"1", "h">>, <<"1", "x">>})}

AllKeys(path) ==
    KeyHostCAPublicKey :> path @@ KeyUserCAPublicKey :> path @@
    KeyHostCAPrivateKey :> path @@ KeyUserCAPrivateKey :> path

\* the default sections of the key-loading inputs: empty, every option, or
\* the four key paths only
DefaultChoices ==
    {<<>>, AllKeys("/k1") @@ KeyCertValidity :> <<"1", "h">>, AllKeys("/k1")}

\* an ini file: the default section, then the named sections in file order
Source(default, named) ==
    [loads    |-> TRUE,
     sections |-> <<[Name |-> DefaultSection, KeysHash |-> default]>> \o
                  [i \in DOMAIN named |-> [Name |-> GroupName(i), KeysHash |-> named[i]]]]

SourcesOver(defaults, sectionSet) ==
    {Source(d, named) :
        d \in defaults,
        named \in UNION {[1..n -> sectionSet] : n \in 0..MaxGroups}}

Good == [pub |-> TRUE, priv |-> TRUE]

\* the disks of the key-loading inputs: both files good; /k2 missing; /k1 not
\* a private key
FileChoices ==
    {"/k1" :> Good @@ "/k2" :> Good,
     "/k1" :> Good,
     "/k1" :> [pub |-> TRUE, priv |-> FALSE] @@ "/k2" :> Good}

InitLoad ==
    /\ host = <<>>
    /\ host2 = <<>>
    /\ matchRet = NoMatchRet
    /\ conf = NoConfig
    /\ qhost = <<>>
    /\ infoRet = NoInfoRet
    /\ cfg \in SourcesOver(DefaultChoices, KeySections) \cup {NoSource}
    /\ files \in FileChoices
    /\ loadRet = NoLoadRet
    /\ ApiIdle

CallLoadConfig ==
    /\ ~loadRet.done
    /\ \E conv \in Float64ToUint64 :
          loadRet' = [done |-> TRUE] @@ LoadConfig(cfg, files, conv)
    /\ UNCHANGED <<host, host2, matchRet, conf, qhost, infoRet, cfg, files, apiVars>>

NextLoad == CallLoadConfig

SpecLoad == InitLoad /\ [][NextLoad]_vars

\* characters of the enumerated cert-validity values
ValidityAlphabet == {"0", "1", "s", "m", "-", "."}

\* "token", "1h", "1h30m", "1500ms", "500ms", "-1h", "abc"
SampleValidities ==
    {token, <<"1", "h">>, <<"1", "h", "3", "0", "m">>,
     <<"1", "5", "0", "0", "m", "s">>, <<"5", "0", "0", "m", "s">>,
     <<"-", "1", "h">>, <<"a", "b", "c">>}

ValidityStrings ==
    UNION {[1..k -> ValidityAlphabet] : k \in 1..MaxValidityLen} \cup SampleValidities

\* named sections that inherit nothing and differ in cert-validity only
ValiditySections ==
    {AllKeys("/k1") @@ (KeyCertValidity :> v) @@ SectionHosts : v \in ValidityStrings}

InitValidity ==
    /\ host = <<>>
    /\ host2 = <<>>
    /\ matchRet = NoMatchRet
    /\ conf = NoConfig
    /\ qhost = <<>>
    /\ infoRet = NoInfoRet
    /\ cfg \in SourcesOver({<<>>}, ValiditySections)
    /\ files = ("/k1" :> Good)
    /\ loadRet = NoLoadRet
    /\ ApiIdle

SpecValidity == InitValidity /\ [][NextLoad]_vars

-----------------------------------------------------------------------------
(* Specification SpecApi: one POST /:host/certificate request *)

\* "a", "x.a", "xa", "x"
RequestHosts == {<<"a">>, <<"x", ".", "a">>, <<"x", "a">>, <<"x">>}

InitApi ==
    /\ host = <<>>
    /\ host2 = <<>>
    /\ matchRet = NoMatchRet
    /\ conf \in LoadedConfigs
    /\ qhost \in RequestHosts
    /\ infoRet = NoInfoRet
    /\ cfg = NoSource
    /\ files = <<>>
    /\ loadRet = NoLoadRet
    /\ ctx \in [UriOk : BOOLEAN, JsonOk : BOOLEAN, PubkeyOk : BOOLEAN, ConfigOk : BOOLEAN]
    /\ pc = "bind"
    /\ frame = NoFrame
    /\ calls = <<>>
    /\ responses = <<>>

NextApi ==
    \/ Bind
    \/ ParseAuthorizedKey
    \/ MustGetConfig
    \/ CallGetMotleyCueURL
    \/ CallGetKeys
    \/ CallGetUserStatus
    \/ SwitchState
    \/ SignCertificate
    \/ ValidateCertificate
    \/ RespondCreated

SpecApi == InitApi /\ [][NextApi]_vars

-----------------------------------------------------------------------------
(* Claims about LoadConfig *)

HostGroups == loadRet.conf.HostGroups

Loaded == loadRet.done /\ loadRet.err = NoError

\* the handles group g holds for the public (private) key file `path`
PubHandles(g, path) ==
    {g.Keys.HostCAPublicKey : x \in {g.PathHostCAPublicKey} \cap {path}} \cup
    {g.Keys.UserCAPublicKey : x \in {g.PathUserCAPublicKey} \cap {path}}

PrivHandles(g, path) ==
    {g.Keys.HostCAPrivateKey : x \in {g.PathHostCAPrivateKey} \cap {path}} \cup
    {g.Keys.UserCAPrivateKey : x \in {g.PathUserCAPrivateKey} \cap {path}}

NoDuplicates(seq) == \A i, j \in DOMAIN seq : seq[i] = seq[j] => i = j

\* C6: after a successful load, key fields of the same flavor that reference
\* the same file path hold the very same handle, in one group or in two, and
\* during one load no path is parsed twice as a public key nor twice as a
\* private key.
C6_KeyDedup ==
    /\ Loaded =>
         \A path \in {"/k1", "/k2"} :
            /\ Cardinality(UNION {PubHandles(HostGroups[i], path) : i \in DOMAIN HostGroups}) <= 1
            /\ Cardinality(UNION {PrivHandles(HostGroups[i], path) : i \in DOMAIN HostGroups}) <= 1
    /\ loadRet.done => NoDuplicates(loadRet.pubParsed) /\ NoDuplicates(loadRet.privParsed)

\* C6 witness: two groups name the same public key file and the same private
\* key file, a second file is in use as well, and the load succeeded
C6_Witness ==
    /\ Loaded
    /\ Len(HostGroups) >= 2
    /\ HostGroups[1].PathUserCAPublicKey = HostGroups[2].PathHostCAPublicKey
    /\ HostGroups[1].Keys.UserCAPublicKey = HostGroups[2].Keys.HostCAPublicKey
    /\ HostGroups[1].PathHostCAPrivateKey = HostGroups[2].PathUserCAPrivateKey
    /\ HostGroups[1].Keys.HostCAPrivateKey = HostGroups[2].Keys.UserCAPrivateKey
    /\ Len(loadRet.pubParsed) = 2
    /\ Len(loadRet.privParsed) = 2

\* the value of `key` for the named section k after the global defaults are
\* overridden by the section's own value
Merged(k, key, empty) ==
    LET own == cfg.sections[k].KeysHash
        def == cfg.sections[1].KeysHash
    IN  IF key \in DOMAIN own THEN own[key]
        ELSE IF key \in DOMAIN def THEN def[key]
        ELSE empty

NamedSections == {k \in DOMAIN cfg.sections : cfg.sections[k].Name # DefaultSection}

Incomplete(k) ==
    \/ \E key \in OptionKeys \ {KeyCertValidity} : Merged(k, key, "") = ""
    \/ Merged(k, KeyCertValidity, <<>>) = <<>>

KeyFileFails(k) ==
    \/ \E key \in {KeyHostCAPublicKey, KeyUserCAPublicKey} :
          ~ParsesAs(files, Merged(k, key, ""), "pub")
    \/ \E key \in {KeyHostCAPrivateKey, KeyUserCAPrivateKey} :
          ~ParsesAs(files, Merged(k, key, ""), "priv")

ValidityFails(k) ==
    LET v == Merged(k, KeyCertValidity, <<>>)
    IN  v # token /\ ~ParseDuration(v).ok

\* C8: LoadConfig succeeds only if every named group, after its own values
\* override the global defaults field by field, has all four key paths and
\* cert-validity non-empty, every referenced key file parsed and every
\* cert-validity parsed; a group with a field still empty makes the load fail
\* with the error naming that group (the first such group in file order), a
\* key file that does not parse makes the load fail, and a loaded Config
\* holds every group with its merged options and no key handle missing.
C8_LoadAllOrNothing ==
    (loadRet.done /\ cfg.loads) =>
        /\ Loaded =>
             /\ \A k \in NamedSections :
                   ~Incomplete(k) /\ ~KeyFileFails(k) /\ ~ValidityFails(k)
             /\ Len(HostGroups) = Cardinality(NamedSections)
             /\ \A i \in DOMAIN HostGroups :
                   LET g == HostGroups[i]
                   IN  /\ g.Name = cfg.sections[i + 1].Name
                       /\ g.PathHostCAPrivateKey = Merged(i + 1, KeyHostCAPrivateKey, "")
                       /\ g.PathHostCAPublicKey = Merged(i + 1, KeyHostCAPublicKey, "")
                       /\ g.PathUserCAPrivateKey = Merged(i + 1, KeyUserCAPrivateKey, "")
                       /\ g.PathUserCAPublicKey = Merged(i + 1, KeyUserCAPublicKey, "")
                       /\ g.CertValidity = Merged(i + 1, KeyCertValidity, <<>>)
                       /\ g.Keys.HostCAPrivateKey # 0 /\ g.Keys.HostCAPublicKey # 0
                       /\ g.Keys.UserCAPrivateKey # 0 /\ g.Keys.UserCAPublicKey # 0
        /\ (\E k \in NamedSections : Incomplete(k)) =>
             LET first == CHOOSE k \in NamedSections :
                             Incomplete(k) /\ \A j \in NamedSections : Incomplete(j) => k <= j
             IN  /\ loadRet.err.msg = "missing option in hostgroup "
                 /\ loadRet.err.group = cfg.sections[first].Name
        /\ (\E k \in NamedSections : KeyFileFails(k)) => loadRet.err # NoError

\* C8 witness: a load of two groups succeeded in which the first group takes
\* its host-CA private key path from the global section and overrides the
\* user-CA private key path with its own
C8_Witness ==
    /\ Loaded
    /\ Len(HostGroups) = 2
    /\ KeyUserCAPrivateKey \in DOMAIN cfg.sections[2].KeysHash
    /\ KeyHostCAPrivateKey \notin DOMAIN cfg.sections[2].KeysHash
    /\ HostGroups[1].PathUserCAPrivateKey = "/k2"
    /\ HostGroups[1].PathHostCAPrivateKey = "/k1"
    /\ HostGroups[1].Keys.UserCAPrivateKey # HostGroups[1].Keys.HostCAPrivateKey

\* the uint64 u, held as the int64 with the same bits, is greater than 0
PositiveUint64(u) == u # 0

\* C7: after LoadConfig every group's CertDuration is 0 exactly when its
\* cert-validity is "token" and otherwise is a positive integer, the
\* configured duration in whole seconds; a string that is neither "token" nor
\* a duration makes the load fail.
C7_DurationZeroOnlyForToken ==
    /\ Loaded =>
         \A i \in DOMAIN HostGroups :
            LET g == HostGroups[i]
            IN  /\ (g.CertDuration = 0) <=> (g.CertValidity = token)
                /\ g.CertValidity # token =>
                      /\ PositiveUint64(g.CertDuration)
                      /\ g.CertDuration = ParseDuration(g.CertValidity).sec
    /\ (loadRet.done /\ \E k \in NamedSections : ValidityFails(k)) => loadRet.err # NoError

-----------------------------------------------------------------------------
(* Claims about matchesHost and Config.GetInfo *)

\* p has the form "*.domain"
IsWildcardForm(p) == Len(p) >= 2 /\ p[1] = "*" /\ p[2] = "."

\* the domain of a pattern "*.domain"
DomainOf(p) == [i \in 1..(Len(p) - 2) |-> p[i + 2]]

\* s ends with d: s is some string followed by d
EndsWith(s, d) == \E k \in 0..Len(s) : [i \in 1..(Len(s) - k) |-> s[i + k]] = d

\* what the documentation says matchesHost(h, p) is
DocumentedMatch(h, p) ==
    \/ IsWildcardForm(p) /\ EndsWith(h, DomainOf(p)) /\ h # DomainOf(p)
    \/ ~IsWildcardForm(p) /\ h = p

C10_OnlySubdomains ==
    (matchRet.done /\ IsWildcardForm(host2) /\ DomainOf(host2) # <<>> /\ matchRet.val)
        => EndsWith(host, <<".">> \o DomainOf(host2))

\* the groups of conf with a pattern that matches qhost
MatchingGroups ==
    {i \in 1..Len(conf.HostGroups) :
        \E p \in DOMAIN conf.HostGroups[i].Hosts : DocumentedMatch(qhost, p)}

FirstMatchingGroup == CHOOSE i \in MatchingGroups : \A j \in MatchingGroups : i <= j

\* C5: GetInfo is first-match-wins over the groups in configuration order,
\* whatever the order in which a group's pattern map is visited: the result has
\* the Keys and CertDuration of the lowest-indexed group with a matching
\* pattern and the Name/URL of a matching pattern of that group; the error is
\* "host not found in config" exactly when no pattern of any group matches.
C5_FirstMatchWins ==
    infoRet.done =>
        /\ (infoRet.err = ERR_HOST_NOT_FOUND) <=> (MatchingGroups = {})
        /\ infoRet.err \in {"", ERR_HOST_NOT_FOUND}
        /\ MatchingGroups # {} =>
              LET g == conf.HostGroups[FirstMatchingGroup]
              IN  /\ infoRet.info.Keys = g.Keys
                  /\ infoRet.info.CertDuration = g.CertDuration
                  /\ infoRet.info.Name \in DOMAIN g.Hosts
                  /\ DocumentedMatch(qhost, infoRet.info.Name)
                  /\ infoRet.info.URL = g.Hosts[infoRet.info.Name]

\* C5 witness: two groups match, the first with two matching patterns, and the
\* lookup returned the first group's keys
C5_Witness ==
    /\ infoRet.done
    /\ Cardinality(MatchingGroups) >= 2
    /\ Cardinality({p \in DOMAIN conf.HostGroups[1].Hosts : DocumentedMatch(qhost, p)}) >= 2
    /\ infoRet.info.Keys = conf.HostGroups[1].Keys
    /\ infoRet.info.Name = <<"x", ".", "a">>

-----------------------------------------------------------------------------
(* Claims about PostHostCertificate *)

\* the functions called so far, in call order
Called == [i \in DOMAIN calls |-> calls[i].fn]

\* the calls of a request that ends with a certificate
IssuancePath ==
    <<"GetMotleyCueURL", "GetKeys", "GetUserStatus", "generateUserCertificate",
      "NewSignerFromKey", "SignCert", "validateUserCertificate">>

IsPrefix(s, t) == Len(s) <= Len(t) /\ \A i \in DOMAIN s : s[i] = t[i]

HasCalled(fn) == \E i \in DOMAIN calls : calls[i].fn = fn
Failed(fn) == \E i \in DOMAIN calls : calls[i].fn = fn /\ ~calls[i].ok
Succeeded(fn) == \E i \in DOMAIN calls : calls[i].fn = fn /\ calls[i].ok

UserAllowed == frame.status.State \in {StateNotDeployed, StateDeployed}

IsErrorResponse(r) == r.code # StatusCreated /\ r.error # "" /\ ~r.certificate.set

\* C1: a 201 response with a certificate is written only after the host was
\* resolved, the authorization check allowed the user, the certificate was
\* signed with the user-CA private key of the keys the lookup returned and
\* validateUserCertificate with their user-CA public key returned true, in
\* this order; when a
\* step fails the request ends with exactly one error response without a
\* certificate; no step is made twice.
C1_IssuedOnlyAfterAllSteps ==
    /\ \A i \in DOMAIN responses :
          (responses[i].code = StatusCreated \/ responses[i].certificate.set) =>
              /\ Called = IssuancePath
              /\ \A k \in DOMAIN calls : calls[k].ok
              /\ UserAllowed
              /\ calls[6].with = frame.keys.UserCAPrivateKey
              /\ calls[7].with = frame.keys.UserCAPublicKey
              /\ frame.keys # NilKeys
              /\ responses[i].certificate.set
              /\ responses[i].certificate.SignatureKey = frame.keys.UserCAPrivateKey
    /\ IsPrefix(Called, IssuancePath)
    /\ Len(responses) <= 1
    /\ pc = "done" <=> Len(responses) = 1
    /\ (\E k \in DOMAIN calls : ~calls[k].ok) => pc = "done"
    /\ pc \in {"sign", "validate", "respond"} => UserAllowed
    /\ (pc = "done" /\ ((\E k \in DOMAIN calls : ~calls[k].ok)
                         \/ (HasCalled("GetUserStatus") /\ ~UserAllowed))) =>
          IsErrorResponse(responses[1])

\* C1 witness: a request went through every step and got its certificate
C1_Witness ==
    /\ pc = "done"
    /\ responses[1].code = StatusCreated
    /\ responses[1].certificate.set
    /\ Len(calls) = 7

\* C2: certificate construction and signing are reached if and only if
\* GetUserStatus returned no error and the state is not_deployed or deployed;
\* for suspended, for an unrecognized state and for an error of GetUserStatus
\* the certificate engine is never invoked and the response is 401 "User is
\* not authorized or suspended.".
C2_SigningIffAuthorized ==
    LET engine == HasCalled("generateUserCertificate") \/ HasCalled("NewSignerFromKey")
                     \/ HasCalled("SignCert") \/ HasCalled("validateUserCertificate")
        passed == Succeeded("GetUserStatus") /\ UserAllowed
    IN  /\ engine => passed
        /\ (pc = "done" /\ passed) => engine
        /\ (pc = "done" /\ HasCalled("GetUserStatus") /\ ~passed) =>
              /\ ~engine
              /\ responses = <<[code |-> StatusUnauthorized, error |-> ERR_UNAUTHORIZED,
                                certificate |-> NoCertificate]>>

\* C2 witness: the user is suspended and the request ended unauthorized
C2_Witness ==
    /\ pc = "done"
    /\ frame.status.State = StateSuspended
    /\ responses[1].code = StatusUnauthorized
    /\ ~HasCalled("SignCert")

UnknownHostResponse ==
    [code |-> StatusBadRequest, error |-> ERR_UNKNOWN_HOST, certificate |-> NoCertificate]

Wellformed == ctx.UriOk /\ ctx.JsonOk /\ ctx.PubkeyOk /\ ctx.ConfigOk

\* C3 as stated: every request whose host matches no pattern of any group is
\* answered 400 "Unknown host." and GetUserStatus is never called.
C3_UnknownHostForEveryRequest ==
    MatchingGroups = {} =>
        /\ ~HasCalled("GetUserStatus")
        /\ pc = "done" => responses = <<UnknownHostResponse>>

\* C3 amended: for a request whose host matches no pattern of any group,
\* GetUserStatus is never called, and when the request binds, its public key
\* parses and the configuration is attached to it, the answer is 400 "Unknown
\* host.".
C3_UnknownHostBeforeAuthorization ==
    MatchingGroups = {} =>
        /\ ~HasCalled("GetUserStatus")
        /\ (pc = "done" /\ Wellformed) => responses = <<UnknownHostResponse>>

\* C3 witness: a well-formed request for a host no group of a non-empty
\* configuration knows was answered "Unknown host."
C3_Witness ==
    /\ pc = "done"
    /\ Wellformed
    /\ conf.HostGroups # <<>>
    /\ MatchingGroups = {}
    /\ Failed("GetMotleyCueURL")
    /\ responses = <<UnknownHostResponse>>

\* C9: a failure to create the signer or to sign, and a failed
\* self-validation, are answered 500 "Internal server error.", never 401.
C9_SigningDefectIsInternalError ==
    (pc = "done" /\ (Failed("NewSignerFromKey") \/ Failed("SignCert")
                      \/ Failed("validateUserCertificate"))) =>
        /\ responses[1].code = StatusInternalServerError
        /\ responses[1].error = ERR_INTERNAL_ERROR
        /\ responses[1].code # StatusUnauthorized

====
